---------------------------- MODULE Spec2Model ----------------------------
(* PlanPulse (src/main.py): the Goal and DailyTask entities, the JSON       *)
(* DataManager and the GoalManager tracker, as a state machine.             *)
(*                                                                          *)
(* Time is counted in ticks, TicksPerDay of them to a calendar day; tick 0  *)
(* is 00:00 of a Monday.  A datetime is a tick, a date string is the day    *)
(* number of the tick, and a timedelta of d days is d * TicksPerDay ticks.  *)
(* Deadlines are assumed to stay inside the range datetime can represent.   *)
EXTENDS Integers, Sequences, FiniteSets, TLC

VARIABLES
    now,          \* the wall clock read by datetime.now()
    up,           \* a GoalManager exists (the process runs)
    goals,        \* GoalManager.goals
    daily_tasks,  \* GoalManager.daily_tasks
    disk,         \* the file goals_data.json
    lastOp,       \* the last call made: what it was given, what the entity
                  \* methods it ran returned or did, and how it ended
    hist,         \* per goal, what check_failed() has returned so far
    http          \* the server thread: where do_GET is in the collection it
                  \* reads, what it has read, and what the collection has been

vars == <<now, up, goals, daily_tasks, disk, lastOp, hist, http>>

-----------------------------------------------------------------------------
(* Bounds of the model *)

MaxEntities == 2
MaxNow == 3
MaxLen == 2
MaxCut == 1
MaxFaultLen == 1
MaxRateDay == 28

TicksPerDay == 2
DaysPerWeek == 7

Names == {"a"}
DeadlineDays == {0, 1}
DaysOfWeek == {<<1>>, <<0, 2, 4>>}

\* Arguments outside what the entities are meant to hold: an empty name, a
\* negative deadline, no weekday, a weekday that is none of 0..6
BadGoalArgs == {<<"", 0>>, <<"a", -1>>}
BadTaskArgs == {<<"", <<1>>>>, <<"a", <<>>>>, <<"a", <<7>>>>}

-----------------------------------------------------------------------------
(* Goal *)

\* Goal.__init__ as add_goal calls it: created_at = datetime.now()
Goal(name, deadline_days, t) ==
    [name |-> name, deadline_days |-> deadline_days, created_at |-> t,
     completed |-> FALSE, failed |-> FALSE]

deadline_date(g) == g.created_at + g.deadline_days * TicksPerDay

\* check_failed with ">=" for ">"
check_failed_at_deadline(g, t) ==
    IF ~g.completed /\ ~g.failed /\ t >= deadline_date(g)
    THEN [goal |-> [g EXCEPT !.failed = TRUE], ret |-> TRUE]
    ELSE [goal |-> g, ret |-> FALSE]

\* check_failed without the test of completed
check_failed_of_completed(g, t) ==
    IF ~g.failed /\ t > deadline_date(g)
    THEN [goal |-> [g EXCEPT !.failed = TRUE], ret |-> TRUE]
    ELSE [goal |-> g, ret |-> FALSE]

\* check_failed without the test of failed
check_failed_again(g, t) ==
    IF ~g.completed /\ t > deadline_date(g)
    THEN [goal |-> [g EXCEPT !.failed = TRUE], ret |-> TRUE]
    ELSE [goal |-> g, ret |-> FALSE]

\* Goal.check_failed at clock t: the goal afterwards and the value returned
check_failed(g, t) ==
    IF ~g.completed /\ ~g.failed
    THEN IF t > deadline_date(g)
         THEN [goal |-> [g EXCEPT !.failed = TRUE], ret |-> TRUE]
         ELSE [goal |-> g, ret |-> FALSE]
    ELSE [goal |-> g, ret |-> FALSE]

\* complete without the test of failed
complete_always(g) == [g EXCEPT !.completed = TRUE]

\* Goal.complete
complete(g) == IF ~g.failed THEN [g EXCEPT !.completed = TRUE] ELSE g

\* datetime.isoformat: the date and the time of day, written apart
isoformat(t) == [date |-> t \div TicksPerDay, time |-> t % TicksPerDay]

\* datetime.fromisoformat
fromisoformat(s) == s.date * TicksPerDay + s.time

Goal_to_dict(g) ==
    [name |-> g.name, deadline_days |-> g.deadline_days,
     created_at |-> isoformat(g.created_at),
     completed |-> g.completed, failed |-> g.failed]

\* from_dict reading the date of created_at only
Goal_from_dict_date_only(d) ==
    [name |-> d.name, deadline_days |-> d.deadline_days,
     created_at |-> d.created_at.date * TicksPerDay,
     completed |-> d.completed, failed |-> d.failed]

Goal_from_dict(d) ==
    [name |-> d.name, deadline_days |-> d.deadline_days,
     created_at |-> fromisoformat(d.created_at),
     completed |-> d.completed, failed |-> d.failed]

-----------------------------------------------------------------------------
(* DailyTask *)

\* DailyTask.__init__: completed_dates or []
DailyTask(name, days_of_week, completed_dates) ==
    [name |-> name, days_of_week |-> days_of_week,
     completed_dates |-> IF completed_dates = <<>> THEN <<>> ELSE completed_dates]

\* str(datetime.now().date())
date_str(t) == t \div TicksPerDay

\* datetime.weekday(): 0 is Monday
weekday(t) == (t \div TicksPerDay) % DaysPerWeek

Contains(s, x) == \E i \in DOMAIN s : s[i] = x

is_active_today(task, t) == Contains(task.days_of_week, weekday(t))

\* complete_today without the test that today is not yet logged
complete_today_again(task, t1, t2) ==
    IF is_active_today(task, t2)
    THEN [task EXCEPT !.completed_dates = Append(@, date_str(t1))]
    ELSE task

\* complete_today that puts today_str in front of the log
complete_today_in_front(task, t1, t2) ==
    LET today_str == date_str(t1) IN
    IF ~Contains(task.completed_dates, today_str) /\ is_active_today(task, t2)
    THEN [task EXCEPT !.completed_dates = <<today_str>> \o @]
    ELSE task

\* DailyTask.complete_today: the clock is read for today_str (t1) and then
\* again by is_active_today (t2)
complete_today(task, t1, t2) ==
    LET today_str == date_str(t1) IN
    IF ~Contains(task.completed_dates, today_str) /\ is_active_today(task, t2)
    THEN [task EXCEPT !.completed_dates = Append(@, today_str)]
    ELSE task

\* DailyTask.completion_rate: the exact fraction num/den of
\* len(completed_dates) / possible_days * 100, and 0.0 is 0/1
completion_rate(task, weeks) ==
    LET possible_days == Len(task.days_of_week) * weeks IN
    IF possible_days = 0
    THEN [num |-> 0, den |-> 1]
    ELSE [num |-> Len(task.completed_dates) * 100, den |-> possible_days]

DailyTask_to_dict(task) ==
    [name |-> task.name, days_of_week |-> task.days_of_week,
     completed_dates |-> task.completed_dates]

DailyTask_from_dict(d) == DailyTask(d.name, d.days_of_week, d.completed_dates)

-----------------------------------------------------------------------------
(* DataManager: the file is the sequence of the pieces json.dump writes *)

Map(f(_), s) == [i \in 1..Len(s) |-> f(s[i])]

GoalTok(g) == [tok |-> "goal", val |-> Goal_to_dict(g)]
TaskTok(task) == [tok |-> "task", val |-> DailyTask_to_dict(task)]
Punct(p) == [tok |-> p, val |-> [name |-> p]]

\* json.dump(data) of save_data, without the daily tasks
json_dump_goals_only(gs, ts) ==
    <<Punct("{"), Punct("goals")>> \o Map(GoalTok, gs)
        \o <<Punct("daily_tasks")>> \o <<Punct("}")>>

\* json.dump(data) of save_data
json_dump(gs, ts) ==
    <<Punct("{"), Punct("goals")>> \o Map(GoalTok, gs)
        \o <<Punct("daily_tasks")>> \o Map(TaskTok, ts) \o <<Punct("}")>>

SelectToks(content, kind) == SelectSeq(content, LAMBDA x : x.tok = kind)

\* json.load: a document is complete when it is closed
json_load_ok(content) ==
    /\ Len(content) >= 2
    /\ content[1].tok = "{"
    /\ content[Len(content)].tok = "}"

\* d[key] of from_dict finds every key it reads
HasKeys(d, keys) == keys \subseteq DOMAIN d

GoalKeys == {"name", "deadline_days", "created_at", "completed", "failed"}

TaskKeys == {"name", "days_of_week", "completed_dates"}

\* data.get("goals", []) and data.get("daily_tasks", []): the entries under
\* the key, none when the key is missing
data_get(content, kind) == SelectToks(content, kind)

NoFile == [exists |-> FALSE, content |-> <<>>]

\* DataManager.load_data: ok is FALSE when json.load raises, or from_dict
\* raises KeyError on an entry
DataManager_load_data(d) ==
    IF ~d.exists
    THEN [ok |-> TRUE, goals |-> <<>>, tasks |-> <<>>]
    ELSE IF ~json_load_ok(d.content)
    THEN [ok |-> FALSE, goals |-> <<>>, tasks |-> <<>>]
    ELSE LET gds == data_get(d.content, "goal")
             tds == data_get(d.content, "task")
         IN  IF \E i \in 1..Len(gds) : ~HasKeys(gds[i].val, GoalKeys)
             THEN [ok |-> FALSE, goals |-> <<>>, tasks |-> <<>>]
             ELSE IF \E i \in 1..Len(tds) : ~HasKeys(tds[i].val, TaskKeys)
             THEN [ok |-> FALSE, goals |-> <<>>, tasks |-> <<>>]
             ELSE [ok |-> TRUE,
                   goals |-> Map(LAMBDA x : Goal_from_dict(x.val), gds),
                   tasks |-> Map(LAMBDA x : DailyTask_from_dict(x.val), tds)]

\* The file after open(DATA_FILE, "w") and the first k pieces written
Written(content, k) == [exists |-> TRUE, content |-> SubSeq(content, 1, k)]


\* A save_data call ends in one of three ways: it returns ("ok"), it raises
\* an OSError ("fail": at open when k < 0, else after k pieces were written),
\* or the process dies in it after k pieces were written ("crash")
Ok == [kind |-> "ok", k |-> 0]
Outcomes(faulty) ==
    IF faulty
    THEN {Ok} \cup [kind : {"fail"}, k : -1..MaxCut] \cup [kind : {"crash"}, k : 0..MaxCut]
    ELSE {Ok}

\* save_data that writes the goals only
DataManager_save_data_goals_only(gs, ts, d, o) ==
    LET content == json_dump_goals_only(gs, ts) IN
    IF o.kind = "ok" THEN Written(content, Len(content))
    ELSE IF o.k < 0 THEN d ELSE Written(content, o.k)

\* DataManager.save_data: the file afterwards
DataManager_save_data(gs, ts, d, o) ==
    LET content == json_dump(gs, ts) IN
    IF o.kind = "ok" THEN Written(content, Len(content))
    ELSE IF o.k < 0 THEN d ELSE Written(content, o.k)

Result(o) ==
    CASE o.kind = "ok" -> "ok"
      [] o.kind = "fail" -> "PersistenceError"
      [] o.kind = "crash" -> "crash"

-----------------------------------------------------------------------------
(* History of check_failed() per goal: cnt counts its True returns (up to   *)
(* 2), od records that the goal was seen not completed past its deadline,   *)
(* called that check_failed() ran on it after that.                         *)

NewHist == [cnt |-> 0, od |-> FALSE, called |-> FALSE]

\* A goal read from the file has failed by one True return
LoadedHist(g) ==
    [cnt |-> IF g.failed THEN 1 ELSE 0, od |-> g.failed, called |-> g.failed]

Observe(h, gs, t) ==
    [i \in 1..Len(gs) |->
        [h[i] EXCEPT !.od = @ \/ (~gs[i].completed /\
            t > gs[i].created_at + gs[i].deadline_days * TicksPerDay)]]

Swept(h, rets) ==
    [i \in 1..Len(h) |->
        [h[i] EXCEPT !.cnt = IF rets[i] /\ @ < 2 THEN @ + 1 ELSE @,
                     !.called = @ \/ h[i].od]]

Remove(s, i) == SubSeq(s, 1, i - 1) \o SubSeq(s, i + 1, Len(s))

-----------------------------------------------------------------------------
(* GoalManager *)

\* get_goals_stats with in_progress = total - completed
get_goals_stats_without_failed(gs) ==
    LET total == Len(gs)
        completed == Len(SelectSeq(gs, LAMBDA g : g.completed))
        failed == Len(SelectSeq(gs, LAMBDA g : g.failed))
    IN  [total |-> total, completed |-> completed, failed |-> failed,
         in_progress |-> total - completed,
         completion_rate |-> IF total > 0
                             THEN [num |-> completed * 100, den |-> total]
                             ELSE [num |-> 0, den |-> 1]]

\* GoalManager.get_goals_stats.  completion_rate is the exact fraction
\* num/den of completed / total * 100, and 0 is 0/1.
get_goals_stats(gs) ==
    LET total == Len(gs)
        completed == Len(SelectSeq(gs, LAMBDA g : g.completed))
        failed == Len(SelectSeq(gs, LAMBDA g : g.failed))
        in_progress == total - completed - failed
    IN  [total |-> total, completed |-> completed, failed |-> failed,
         in_progress |-> in_progress,
         completion_rate |-> IF total > 0
                             THEN [num |-> completed * 100, den |-> total]
                             ELSE [num |-> 0, den |-> 1]]

\* What the last call was: the object it was given (arg), the index it
\* acted on, the returns of check_failed per goal (rets), its own return
\* value (ret), its calls of save_data (saves), how it ended (res), and for
\* a tab update the status shown per goal (shown) or the statistics (stats);
\* for completion_rate, arg is weeks and rate what it returned
Call(op, idx, rets, res) ==
    [op |-> op, arg |-> 0, idx |-> idx, rets |-> rets, ret |-> FALSE,
     saves |-> 0, res |-> res, shown |-> <<>>, stats |-> get_goals_stats(<<>>),
     rate |-> [num |-> 0, den |-> 1]]

\* The file holds what is in memory.  A save fails only in such a state: one
\* failed save at a time, and of no more than MaxFaultLen entities.
InSync ==
    DataManager_load_data(disk) = [ok |-> TRUE, goals |-> goals, tasks |-> daily_tasks]

\* An object is named by the index it has in its collection, and Absent
\* names an object that is in neither collection
Absent == 0

\* list.remove(x) that compares the fields of the entities
list_remove_by_value(vals, x) ==
    IF x \notin 1..Len(vals) THEN 0
    ELSE CHOOSE k \in 1..Len(vals) :
            /\ vals[k] = vals[x]
            /\ \A m \in 1..(k - 1) : vals[m] # vals[x]

\* list.remove(x) that removes the last entity when x is not in the list
list_remove_or_last(vals, x) ==
    IF x \notin 1..Len(vals) THEN Len(vals) ELSE x

\* list.remove(x): the index of the first entity equal to x, 0 when there
\* is none and it raises ValueError.  Goal and DailyTask define no __eq__:
\* an entity is equal to x when it is the object x.
list_remove(vals, x) ==
    IF x \notin 1..Len(vals) THEN 0 ELSE x

\* Another entity of the collection has the fields of the one at index k
HasTwin(vals, k) == \E j \in 1..Len(vals) : j # k /\ vals[j] = vals[k]

\* The server thread has no request in hand
Idle == [pc |-> "idle", path |-> "", pos |-> 0, out |-> <<>>, seen |-> {}]

\* self.manager.goals or self.manager.daily_tasks, as the path asks
Collection(path, gs, ts) == IF path = "/api/goals" THEN gs ELSE ts

\* The collections become gs and ts while do_GET may be reading one
Mutated(gs, ts) ==
    IF http.pc = "iter"
    THEN [http EXCEPT !.seen = @ \cup {Collection(http.path, gs, ts)}]
    ELSE http

\* GoalManager.save_data at the end of the call, which leaves the
\* collections gs and ts in memory at clock t
Persist(call, gs, ts, h, t, o) ==
    /\ o.kind # "ok" =>
            /\ Len(gs) + Len(ts) <= MaxFaultLen
            /\ o.k < Len(json_dump(gs, ts))
            /\ InSync
    /\ now' = t
    /\ disk' = DataManager_save_data(gs, ts, disk, o)
    /\ up' = (o.kind # "crash")
    /\ goals' = IF o.kind = "crash" THEN <<>> ELSE gs
    /\ daily_tasks' = IF o.kind = "crash" THEN <<>> ELSE ts
    /\ hist' = IF o.kind = "crash" THEN <<>> ELSE Observe(h, gs, t)
    /\ http' = IF o.kind = "crash" \/ call.op = "init" THEN Idle ELSE Mutated(gs, ts)
    /\ lastOp' = [call EXCEPT !.saves = 1, !.res = Result(o)]

add_goal(name, deadline_days, o) ==
    /\ up
    /\ Len(goals) + Len(daily_tasks) < MaxEntities
    /\ Persist(Call("add_goal", Len(goals) + 1, <<>>, "ok"),
               Append(goals, Goal(name, deadline_days, now)), daily_tasks,
               Append(hist, NewHist), now, o)

add_daily_task(name, days_of_week, o) ==
    /\ up
    /\ Len(goals) + Len(daily_tasks) < MaxEntities
    /\ Persist(Call("add_daily_task", Len(daily_tasks) + 1, <<>>, "ok"), goals,
               Append(daily_tasks, DailyTask(name, days_of_week, <<>>)),
               hist, now, o)

\* rets: whether the goal became completed
complete_goal(i, o) ==
    /\ up
    /\ i \in 1..Len(goals)
    /\ Persist(Call("complete_goal", i,
                    <<~goals[i].completed /\ complete(goals[i]).completed>>, "ok"),
               [goals EXCEPT ![i] = complete(@)], daily_tasks, hist, now, o)

\* adv: the ticks the clock advances between the two reads of complete_today
complete_daily_task(i, adv, o) ==
    /\ up
    /\ i \in 1..Len(daily_tasks)
    /\ now + adv <= MaxNow
    /\ LET done == complete_today(daily_tasks[i], now, now + adv) IN
       Persist(Call("complete_daily_task", i,
                    <<Len(done.completed_dates) > Len(daily_tasks[i].completed_dates)>>,
                    "ok"),
               goals, [daily_tasks EXCEPT ![i] = done], hist, now + adv, o)

\* A call that raises before save_data: nothing but the call is recorded
Raise(call) ==
    /\ lastOp' = call
    /\ UNCHANGED <<now, up, goals, daily_tasks, disk, hist, http>>

\* delete_goal of the object x: list.remove raises ValueError when x is
\* not in the collection (res NotFound), and save_data is not reached
delete_goal(x, o) ==
    /\ up
    /\ x <= Len(goals)
    /\ LET k == list_remove(goals, x) IN
       IF k = 0
       THEN /\ o = Ok
            /\ Raise([Call("delete_goal", 0, <<>>, "NotFound") EXCEPT !.arg = x])
       ELSE Persist([Call("delete_goal", k, <<HasTwin(goals, k)>>, "ok") EXCEPT !.arg = x],
                    Remove(goals, k), daily_tasks, Remove(hist, k), now, o)

delete_daily_task(x, o) ==
    /\ up
    /\ x <= Len(daily_tasks)
    /\ LET k == list_remove(daily_tasks, x) IN
       IF k = 0
       THEN /\ o = Ok
            /\ Raise([Call("delete_daily_task", 0, <<>>, "NotFound") EXCEPT !.arg = x])
       ELSE Persist([Call("delete_daily_task", k, <<HasTwin(daily_tasks, k)>>, "ok")
                        EXCEPT !.arg = x],
                    goals, Remove(daily_tasks, k), hist, now, o)

\* The loop of check_failed_goals over gs that saves whether or not a goal
\* was updated
Sweep_always_saves(op, gs, ts, h, o) ==
    LET rs == [i \in 1..Len(gs) |-> check_failed(gs[i], now)]
        gs2 == [i \in 1..Len(gs) |-> rs[i].goal]
        rets == [i \in 1..Len(gs) |-> rs[i].ret]
        updated == \E i \in 1..Len(gs) : rets[i]
    IN  Persist([Call(op, 0, rets, "ok") EXCEPT !.ret = updated],
                gs2, ts, Swept(h, rets), now, o)

\* The loop of check_failed_goals over gs, and its save when updated
Sweep(op, gs, ts, h, o) ==
    LET rs == [i \in 1..Len(gs) |-> check_failed(gs[i], now)]
        gs2 == [i \in 1..Len(gs) |-> rs[i].goal]
        rets == [i \in 1..Len(gs) |-> rs[i].ret]
        updated == \E i \in 1..Len(gs) : rets[i]
    IN  IF updated
        THEN Persist([Call(op, 0, rets, "ok") EXCEPT !.ret = TRUE],
                     gs2, ts, Swept(h, rets), now, o)
        ELSE /\ o = Ok
             /\ up' = TRUE
             /\ goals' = gs2
             /\ daily_tasks' = ts
             /\ hist' = Observe(Swept(h, rets), gs2, now)
             /\ http' = IF op = "init" THEN Idle ELSE http
             /\ lastOp' = Call(op, 0, rets, "ok")
             /\ UNCHANGED <<now, disk>>

check_failed_goals(o) ==
    /\ up
    /\ Sweep("check_failed_goals", goals, daily_tasks, hist, o)

\* GoalManager.__init__ that loads and does not call check_failed_goals
Restart_without_sweep(o) ==
    LET loaded == DataManager_load_data(disk) IN
    /\ o = Ok
    /\ loaded.ok
    /\ up' = TRUE
    /\ goals' = loaded.goals
    /\ daily_tasks' = loaded.tasks
    /\ hist' = [i \in 1..Len(loaded.goals) |-> LoadedHist(loaded.goals[i])]
    /\ http' = Idle
    /\ lastOp' = Call("init", 0, [i \in 1..Len(loaded.goals) |-> FALSE], "ok")
    /\ UNCHANGED <<now, disk>>

\* The process ends, if it runs, and starts again: GoalManager.__init__
Restart(o) ==
    LET loaded == DataManager_load_data(disk) IN
    IF loaded.ok
    THEN Sweep("init", loaded.goals, loaded.tasks,
               IF up /\ loaded.goals = goals THEN hist
               ELSE [i \in 1..Len(loaded.goals) |-> LoadedHist(loaded.goals[i])], o)
    ELSE /\ o = Ok
         /\ up' = FALSE
         /\ goals' = <<>>
         /\ daily_tasks' = <<>>
         /\ hist' = <<>>
         /\ http' = Idle
         /\ lastOp' = Call("init", 0, <<>>, "CorruptData")
         /\ UNCHANGED <<now, disk>>

(* GoalAppUI: what the tabs show *)

\* status_text of update_weekly_goals_tab
status_text(g) ==
    IF g.completed THEN "completed" ELSE IF g.failed THEN "failed" ELSE "in_progress"

\* The goals tab is drawn again: shown is the status shown for each goal
update_weekly_goals_tab ==
    /\ up
    /\ lastOp' = [Call("update_weekly_goals_tab", 0, <<>>, "ok")
                    EXCEPT !.shown = [i \in 1..Len(goals) |-> status_text(goals[i])]]
    /\ UNCHANGED <<now, up, goals, daily_tasks, disk, hist, http>>

\* The statistics tab is drawn again: stats is the statistics shown
update_stats_tab ==
    /\ up
    /\ lastOp' = [Call("update_stats_tab", 0, <<>>, "ok")
                    EXCEPT !.stats = get_goals_stats(goals)]
    /\ UNCHANGED <<now, up, goals, daily_tasks, disk, hist, http>>

(* WebRequestHandler, in the thread of NetworkManager.start_server *)

Paths == {"/api/goals", "/api/tasks"}

\* goal.to_dict() or task.to_dict() of the comprehension in do_GET
to_dict(path, e) ==
    IF path = "/api/goals" THEN Goal_to_dict(e) ELSE DailyTask_to_dict(e)

\* do_GET comes to the list comprehension: iter() of the collection
do_GET_begin(path) ==
    /\ up
    /\ http.pc # "iter"
    /\ http' = [pc |-> "iter", path |-> path, pos |-> 1, out |-> <<>>,
                seen |-> {Collection(path, goals, daily_tasks)}]
    /\ UNCHANGED <<now, up, goals, daily_tasks, disk, lastOp, hist>>

\* One turn of the comprehension: the list iterator gives the entity at its
\* index in the list as it is now, or is exhausted and the list is written
do_GET_next ==
    /\ http.pc = "iter"
    /\ LET c == Collection(http.path, goals, daily_tasks) IN
       http' = IF http.pos <= Len(c)
               THEN [http EXCEPT !.out = Append(@, to_dict(http.path, c[http.pos])),
                                 !.pos = @ + 1]
               ELSE [http EXCEPT !.pc = "done"]
    /\ UNCHANGED <<now, up, goals, daily_tasks, disk, lastOp, hist>>

\* goals_data.json as something other than save_data left it: without the
\* "goals" key, without the "daily_tasks" key, with goal entries that lack
\* the "failed" key, or cut off before its end
Damaged(content, kind) ==
    CASE kind = "no_goals" ->
            SelectSeq(content, LAMBDA x : x.tok \notin {"goals", "goal"})
      [] kind = "no_daily_tasks" ->
            SelectSeq(content, LAMBDA x : x.tok \notin {"daily_tasks", "task"})
      [] kind = "no_field" ->
            [k \in 1..Len(content) |->
                IF content[k].tok = "goal"
                THEN [content[k] EXCEPT !.val = [f \in GoalKeys \ {"failed"} |-> @[f]]]
                ELSE content[k]]
      [] kind = "not_json" -> SubSeq(content, 1, Len(content) - 1)

DamageKinds == {"no_goals", "no_daily_tasks", "no_field", "not_json"}

\* The file is replaced while it holds what is in memory
Corrupt(kind) ==
    /\ disk.exists
    /\ InSync
    /\ Damaged(disk.content, kind) # disk.content
    /\ disk' = [disk EXCEPT !.content = Damaged(@, kind)]
    /\ lastOp' = Call("corrupt", 0, <<>>, "ok")
    /\ UNCHANGED <<now, up, goals, daily_tasks, hist, http>>

\* The clock advances
Tick ==
    /\ now < MaxNow
    /\ now' = now + 1
    /\ hist' = Observe(hist, goals, now + 1)
    /\ lastOp' = Call("tick", 0, <<>>, "ok")
    /\ UNCHANGED <<up, goals, daily_tasks, disk, http>>

-----------------------------------------------------------------------------
(* Specifications *)

\* No file yet: GoalManager() starts with empty collections
Init ==
    /\ now = 0
    /\ up = TRUE
    /\ goals = <<>>
    /\ daily_tasks = <<>>
    /\ disk = NoFile
    /\ lastOp = Call("init", 0, <<>>, "ok")
    /\ hist = <<>>
    /\ http = Idle

Ops(faulty) ==
    \/ \E n \in Names, d \in DeadlineDays, o \in Outcomes(faulty) : add_goal(n, d, o)
    \/ \E n \in Names, w \in DaysOfWeek, o \in Outcomes(faulty) : add_daily_task(n, w, o)
    \/ \E i \in 1..MaxEntities, o \in Outcomes(faulty) : complete_goal(i, o)
    \/ \E i \in 1..MaxEntities, adv \in 0..1, o \in Outcomes(faulty) : complete_daily_task(i, adv, o)
    \/ \E x \in {Absent} \cup 1..MaxEntities, o \in Outcomes(faulty) : delete_goal(x, o)
    \/ \E x \in {Absent} \cup 1..MaxEntities, o \in Outcomes(faulty) : delete_daily_task(x, o)
    \/ \E o \in Outcomes(faulty) : check_failed_goals(o)
    \/ \E o \in Outcomes(faulty) : Restart(o)
    \/ Tick

\* Every save succeeds
Next == Ops(FALSE)

Spec == Init /\ [][Next]_vars

\* A save may raise, and the process may die in it
NextFault == Ops(TRUE)

SpecFault == Init /\ [][NextFault]_vars

\* The callers of add_goal and add_daily_task pass any arguments
NextAny ==
    \/ \E a \in BadGoalArgs : add_goal(a[1], a[2], Ok)
    \/ \E a \in BadTaskArgs : add_daily_task(a[1], a[2], Ok)
    \/ Next

SpecAny == Init /\ [][NextAny]_vars

\* The application: what the click handlers and tab updates of GoalAppUI
\* call on the GoalManager that main() made, the clock, and the application
\* being closed and started again
NextApp ==
    \/ \E n \in Names, d \in DeadlineDays : add_goal(n, d, Ok)
    \/ \E n \in Names, w \in DaysOfWeek : add_daily_task(n, w, Ok)
    \/ \E i \in 1..MaxEntities : complete_goal(i, Ok)
    \/ \E i \in 1..MaxEntities, adv \in 0..1 : complete_daily_task(i, adv, Ok)
    \/ \E x \in 1..MaxEntities : delete_goal(x, Ok)
    \/ \E x \in 1..MaxEntities : delete_daily_task(x, Ok)
    \/ update_weekly_goals_tab
    \/ update_stats_tab
    \/ Restart(Ok)
    \/ Tick

SpecApp == Init /\ [][NextApp]_vars

\* The server thread runs beside the thread that adds and deletes
NextHttp ==
    \/ \E n \in Names, d \in DeadlineDays : add_goal(n, d, Ok)
    \/ \E n \in Names, w \in DaysOfWeek : add_daily_task(n, w, Ok)
    \/ \E x \in 1..MaxEntities : delete_goal(x, Ok)
    \/ \E x \in 1..MaxEntities : delete_daily_task(x, Ok)
    \/ \E path \in Paths : do_GET_begin(path)
    \/ do_GET_next

SpecHttp == Init /\ [][NextHttp]_vars

\* The file is not always what save_data wrote
NextFile ==
    \/ \E kind \in DamageKinds : Corrupt(kind)
    \/ Next

SpecFile == Init /\ [][NextFile]_vars


-----------------------------------------------------------------------------
(* Round trip of DataManager over arbitrary collections *)

SeqsUpTo(S, n) == UNION {[1..k -> S] : k \in 0..n}

RTGoals ==
    [name : {"a"}, deadline_days : {0, 1}, created_at : {1, 2},
     completed : BOOLEAN, failed : BOOLEAN]

RTTasks == {DailyTask("", <<1>>, <<>>), DailyTask("a", <<0, 2, 4>>, <<0, 1>>)}

InitRT ==
    /\ now = 0
    /\ up = TRUE
    /\ goals \in SeqsUpTo(RTGoals, MaxLen)
    /\ daily_tasks \in SeqsUpTo(RTTasks, MaxLen)
    /\ disk = NoFile
    /\ lastOp = Call("given", 0, <<>>, "ok")
    /\ hist = <<>>
    /\ http = Idle

\* GoalManager.save_data
save_data ==
    /\ lastOp.op = "given"
    /\ disk' = DataManager_save_data(goals, daily_tasks, disk, Ok)
    /\ lastOp' = Call("save_data", 0, <<>>, "ok")
    /\ UNCHANGED <<now, up, goals, daily_tasks, hist, http>>

\* GoalManager.load_data
load_data ==
    /\ lastOp.op = "save_data"
    /\ LET loaded == DataManager_load_data(disk) IN
        /\ loaded.ok
        /\ goals' = loaded.goals
        /\ daily_tasks' = loaded.tasks
    /\ lastOp' = Call("load_data", 0, <<>>, "ok")
    /\ UNCHANGED <<now, up, disk, hist, http>>

NextRT == save_data \/ load_data

SpecRT == InitRT /\ [][NextRT]_vars

-----------------------------------------------------------------------------
(* One DailyTask over the weeks: complete_today() on the days it is called, *)
(* completion_rate(weeks) read at any time                                   *)

RateDaysOfWeek == {<<>>, <<0>>, <<1>>}

\* weeks: the default of completion_rate, and one week
Weeks == {1, 4}

InitRate ==
    /\ now = 0
    /\ up = TRUE
    /\ goals = <<>>
    /\ daily_tasks \in {<<DailyTask("a", w, <<>>)>> : w \in RateDaysOfWeek}
    /\ disk = NoFile
    /\ lastOp = Call("given", 0, <<>>, "ok")
    /\ hist = <<>>
    /\ http = Idle

\* The next day begins
NextDay ==
    /\ now < MaxRateDay * TicksPerDay
    /\ now' = now + TicksPerDay
    /\ lastOp' = Call("tick", 0, <<>>, "ok")
    /\ UNCHANGED <<up, goals, daily_tasks, disk, hist, http>>

\* DailyTask.complete_today on the task
complete_today_call ==
    /\ LET done == complete_today(daily_tasks[1], now, now) IN
        /\ daily_tasks' = <<done>>
        /\ lastOp' = Call("complete_today", 1,
                          <<Len(done.completed_dates) > Len(daily_tasks[1].completed_dates)>>,
                          "ok")
    /\ UNCHANGED <<now, up, goals, disk, hist, http>>

\* DailyTask.completion_rate(weeks) on the task
completion_rate_call(weeks) ==
    /\ lastOp' = [Call("completion_rate", 1, <<>>, "ok")
                    EXCEPT !.arg = weeks,
                           !.rate = completion_rate(daily_tasks[1], weeks)]
    /\ UNCHANGED <<now, up, goals, daily_tasks, disk, hist, http>>

NextRate ==
    \/ NextDay
    \/ complete_today_call
    \/ \E weeks \in Weeks : completion_rate_call(weeks)

SpecRate == InitRate /\ [][NextRate]_vars

-----------------------------------------------------------------------------
(* Claims *)

\* C1: a goal made by add_goal is never completed and failed at once, in
\* memory or in the file, whatever complete_goal, check_failed_goals, the
\* clock and restarts do.
C1_NeverBoth ==
    /\ \A i \in 1..Len(goals) : ~(goals[i].completed /\ goals[i].failed)
    /\ \A k \in 1..Len(disk.content) :
          disk.content[k].tok = "goal" =>
              ~(disk.content[k].val.completed /\ disk.content[k].val.failed)

\* complete_goal has just been called on a failed goal
C1_Witness ==
    /\ lastOp.op = "complete_goal"
    /\ goals[lastOp.idx].failed

\* The index before a step of the goal that is at index i after it
PrevIndex(i) ==
    IF lastOp'.op = "delete_goal" /\ lastOp'.idx > 0 /\ i >= lastOp'.idx
    THEN i + 1 ELSE i

\* C2: COMPLETED and FAILED are absorbing: no step takes a failed goal to
\* not failed or to completed, nor a completed goal to not completed or to
\* failed.
C2_Absorbing ==
    [][\A i \in 1..Len(goals') :
          PrevIndex(i) \in 1..Len(goals) =>
              LET g == goals[PrevIndex(i)]
                  h == goals'[i]
              IN  /\ g.failed => h.failed /\ ~h.completed
                  /\ g.completed => h.completed /\ ~h.failed]_vars

\* check_failed() has just run on a completed goal whose deadline has passed
C2_Witness ==
    /\ lastOp.op = "check_failed_goals"
    /\ \E i \in 1..Len(goals) :
          /\ goals[i].completed
          /\ now > goals[i].created_at + goals[i].deadline_days * TicksPerDay

\* C3: after add_goal, add_daily_task, complete_goal, complete_daily_task,
\* delete_goal, delete_daily_task or check_failed_goals has returned, the
\* file loads to exactly the collections in memory.
C3_Durable ==
    (/\ lastOp.res = "ok"
     /\ lastOp.op \in {"add_goal", "add_daily_task", "complete_goal",
                       "complete_daily_task", "delete_goal",
                       "delete_daily_task", "check_failed_goals"})
    => /\ DataManager_load_data(disk).ok
       /\ DataManager_load_data(disk).goals = goals
       /\ DataManager_load_data(disk).tasks = daily_tasks

\* complete_daily_task has returned after logging a date, with a goal in
\* memory too
C3_Witness ==
    /\ lastOp.op = "complete_daily_task"
    /\ lastOp.res = "ok"
    /\ lastOp.rets = <<TRUE>>
    /\ Len(goals) = 1

\* C4: a crash during save_data leaves the file as it was or holding the
\* complete new snapshot.
C4_Atomic ==
    [][lastOp'.res = "crash" =>
          \/ disk' = disk
          \/ disk'.exists /\ json_load_ok(disk'.content)]_vars

\* C5: when the save of a mutation raises, the collections in memory are
\* what they were before the mutation.
C5_NotCommitted ==
    [][lastOp'.res = "PersistenceError" =>
          goals' = goals /\ daily_tasks' = daily_tasks]_vars

\* C6: check_failed() returns True and sets failed exactly when the goal is
\* neither completed nor failed and now is later than created_at plus
\* deadline_days days; otherwise it returns False and changes nothing.
C6_CheckFailed ==
    [][lastOp'.op = "check_failed_goals" =>
          /\ Len(goals') = Len(goals)
          /\ Len(lastOp'.rets) = Len(goals)
          /\ \A i \in 1..Len(goals) :
                LET g == goals[i]
                    due == /\ ~g.completed
                           /\ ~g.failed
                           /\ now > g.created_at + g.deadline_days * TicksPerDay
                IN  /\ lastOp'.rets[i] = due
                    /\ goals'[i] = IF due THEN [g EXCEPT !.failed = TRUE] ELSE g]_vars

\* One sweep returned True for a goal past its deadline and False for a
\* pending goal exactly at its deadline
C6_Witness ==
    /\ lastOp.op = "check_failed_goals"
    /\ \E i, j \in 1..Len(goals) :
          /\ lastOp.rets[i]
          /\ goals[i].failed
          /\ ~lastOp.rets[j]
          /\ ~goals[j].completed /\ ~goals[j].failed
          /\ now = goals[j].created_at + goals[j].deadline_days * TicksPerDay

\* C7 as stated: once check_failed() has been called on a goal that was not
\* completed when its deadline had passed, it has returned True exactly once
\* and the goal is failed, whatever complete() calls came in between.
C7_ExactlyOnce ==
    \A i \in 1..Len(goals) :
        hist[i].called => hist[i].cnt = 1 /\ goals[i].failed

\* C7 amended: check_failed() returns True at most once for a goal, a goal
\* for which it has returned True is failed and not completed, and when it
\* has been called on a goal past its deadline that no complete() completed
\* first, it has returned True exactly once and the goal is failed.
C7_OnceUnlessCompleted ==
    \A i \in 1..Len(goals) :
        /\ hist[i].cnt <= 1
        /\ hist[i].cnt = 1 => goals[i].failed /\ ~goals[i].completed
        /\ hist[i].called /\ ~goals[i].completed =>
              hist[i].cnt = 1 /\ goals[i].failed

\* A goal with deadline_days = 0 for which check_failed() returned True, and
\* then False in the sweep just made
C7_Witness ==
    /\ lastOp.op = "check_failed_goals"
    /\ \E i \in 1..Len(goals) :
          /\ goals[i].deadline_days = 0
          /\ hist[i].cnt = 1
          /\ ~lastOp.rets[i]
          /\ goals[i].failed

\* C8: load_data() after save_data(G, T) gives collections equal to G and T:
\* the same length, the same order, every field equal.
C8_RoundTrip ==
    [][lastOp'.op = "load_data" =>
          goals' = goals /\ daily_tasks' = daily_tasks]_vars

\* Two different goals, one both completed and failed, and a task of one
\* weekday with no completed date, have been saved and loaded
C8_Witness ==
    /\ lastOp.op = "load_data"
    /\ Len(goals) = 2
    /\ goals[1] # goals[2]
    /\ goals[1].completed /\ goals[1].failed
    /\ goals[1].created_at % TicksPerDay # 0
    /\ \E i \in 1..Len(daily_tasks) :
          /\ daily_tasks[i].completed_dates = <<>>
          /\ Len(daily_tasks[i].days_of_week) = 1

\* C9: no date is twice in the completed_dates of a task.
C9_AtMostOnce ==
    \A i \in 1..Len(daily_tasks) :
        \A a, b \in 1..Len(daily_tasks[i].completed_dates) :
            a # b => daily_tasks[i].completed_dates[a] # daily_tasks[i].completed_dates[b]

\* complete_today() has just been called on a day already logged, after a
\* completion on an earlier day
C9_Witness ==
    /\ lastOp.op = "complete_daily_task"
    /\ lastOp.rets = <<FALSE>>
    /\ LET dates == daily_tasks[lastOp.idx].completed_dates IN
          /\ Len(dates) = 2
          /\ dates[2] = now \div TicksPerDay

\* C10: every date in completed_dates is of a weekday in days_of_week.
C10_ActiveDaysOnly ==
    \A i \in 1..Len(daily_tasks) :
        \A k \in 1..Len(daily_tasks[i].completed_dates) :
            \E d \in 1..Len(daily_tasks[i].days_of_week) :
                daily_tasks[i].days_of_week[d] =
                    daily_tasks[i].completed_dates[k] % DaysPerWeek

\* C11: delete_goal and delete_daily_task of an object that is not in the
\* collection end in the not-found error (the ValueError of list.remove) and
\* leave both collections and the file as they were.
C11_DeleteAbsent ==
    [][/\ (lastOp'.op = "delete_goal" /\ lastOp'.arg \notin 1..Len(goals)) =>
            /\ lastOp'.res = "NotFound"
            /\ goals' = goals /\ daily_tasks' = daily_tasks /\ disk' = disk
       /\ (lastOp'.op = "delete_daily_task" /\ lastOp'.arg \notin 1..Len(daily_tasks)) =>
            /\ lastOp'.res = "NotFound"
            /\ goals' = goals /\ daily_tasks' = daily_tasks /\ disk' = disk]_vars

\* delete_goal of an object that is not among the goals there are
C11_Witness ==
    /\ lastOp.op = "delete_goal"
    /\ lastOp.res = "NotFound"
    /\ lastOp.saves = 0
    /\ Len(goals) > 0
    /\ disk.exists

\* C12: add_goal refuses a negative deadline_days and an empty name,
\* add_daily_task refuses an empty days_of_week, a weekday outside 0..6 and
\* an empty name: no collection holds such an entity.
C12_Validated ==
    /\ \A i \in 1..Len(goals) :
          goals[i].deadline_days >= 0 /\ goals[i].name # ""
    /\ \A i \in 1..Len(daily_tasks) :
          /\ daily_tasks[i].name # ""
          /\ daily_tasks[i].days_of_week # <<>>
          /\ \A k \in 1..Len(daily_tasks[i].days_of_week) :
                daily_tasks[i].days_of_week[k] \in 0..(DaysPerWeek - 1)

\* C13: GoalManager() starts with empty collections when there is no file,
\* and ends in the corrupt-data error, with no tracker made, when there is
\* a file that is not a closed document with a "goals" and a "daily_tasks"
\* key whose entries have all their fields.
C13_LoadOrFail ==
    [][lastOp'.op = "init" =>
          IF ~disk.exists
          THEN lastOp'.res = "ok" /\ goals' = <<>> /\ daily_tasks' = <<>>
          ELSE LET c == disk.content
                   shaped ==
                       /\ Len(c) >= 2
                       /\ c[1].tok = "{"
                       /\ c[Len(c)].tok = "}"
                       /\ \E k \in 1..Len(c) : c[k].tok = "goals"
                       /\ \E k \in 1..Len(c) : c[k].tok = "daily_tasks"
                       /\ \A k \in 1..Len(c) :
                             /\ c[k].tok = "goal" =>
                                   {"name", "deadline_days", "created_at",
                                    "completed", "failed"} \subseteq DOMAIN c[k].val
                             /\ c[k].tok = "task" =>
                                   {"name", "days_of_week", "completed_dates"}
                                       \subseteq DOMAIN c[k].val
               IN  ~shaped => lastOp'.res = "CorruptData" /\ ~up'
      ]_vars

\* C14: when GoalManager() has returned, every goal it loaded that is not
\* completed and whose deadline is before now is failed, the file holds the
\* goals as they are in memory, and the file was written only if the sweep
\* changed a goal.
C14_InitReconciles ==
    [][(lastOp'.op = "init" /\ lastOp'.res = "ok") =>
          LET loaded == DataManager_load_data(disk).goals IN
          /\ Len(goals') = Len(loaded)
          /\ \A i \in 1..Len(goals') :
                (~goals'[i].completed /\
                    now' > goals'[i].created_at + goals'[i].deadline_days * TicksPerDay)
                        => goals'[i].failed
          /\ DataManager_load_data(disk').goals = goals'
          /\ lastOp'.saves > 0 => \E i \in 1..Len(goals') : goals'[i] # loaded[i]
          /\ lastOp'.saves = 0 => disk' = disk
      ]_vars

\* GoalManager() has found an overdue goal in the file and marked it
C14_Witness ==
    /\ lastOp.op = "init"
    /\ lastOp.res = "ok"
    /\ lastOp.saves = 1
    /\ \E i \in 1..Len(goals) : lastOp.rets[i] /\ goals[i].failed
    /\ \E i \in 1..Len(goals) : ~lastOp.rets[i]

\* C15: check_failed_goals leaves every goal as check_failed leaves it,
\* returns true exactly when a goal became failed, calls save_data once
\* when it returns true and not at all when it returns false, and returns
\* false when called again right after itself.
C15_SweepOnce ==
    [][(lastOp'.op = "check_failed_goals" /\ lastOp'.res = "ok") =>
          /\ Len(goals') = Len(goals)
          /\ \A i \in 1..Len(goals) :
                goals'[i] =
                    IF /\ ~goals[i].completed
                       /\ ~goals[i].failed
                       /\ now > goals[i].created_at + goals[i].deadline_days * TicksPerDay
                    THEN [goals[i] EXCEPT !.failed = TRUE]
                    ELSE goals[i]
          /\ lastOp'.ret = (\E i \in 1..Len(goals) : ~goals[i].failed /\ goals'[i].failed)
          /\ lastOp'.saves = IF lastOp'.ret THEN 1 ELSE 0
          /\ lastOp'.ret => DataManager_load_data(disk').goals = goals'
          /\ ~lastOp'.ret => disk' = disk
          /\ lastOp.op = "check_failed_goals" => ~lastOp'.ret
      ]_vars

\* check_failed_goals has returned true: one goal became failed, another
\* did not
C15_Witness ==
    /\ lastOp.op = "check_failed_goals"
    /\ lastOp.ret
    /\ lastOp.saves = 1
    /\ \E i \in 1..Len(goals) : lastOp.rets[i] /\ goals[i].failed
    /\ \E i \in 1..Len(goals) : ~lastOp.rets[i] /\ ~goals[i].failed

\* C16: get_goals_stats returns the number of goals as total, the numbers
\* of completed and of failed goals, as in_progress the number of goals that
\* are neither, with total = completed + failed + in_progress, and as
\* completion_rate completed / total * 100, or 0 when there is no goal; the
\* statistics tab shows these.
C16_Stats ==
    LET s == get_goals_stats(goals)
        all == 1..Len(goals)
    IN  /\ s.total = Len(goals)
        /\ s.completed = Cardinality({i \in all : goals[i].completed})
        /\ s.failed = Cardinality({i \in all : goals[i].failed})
        /\ s.in_progress =
              Cardinality({i \in all : ~goals[i].completed /\ ~goals[i].failed})
        /\ s.total = s.completed + s.failed + s.in_progress
        /\ s.completion_rate.den > 0
        /\ IF s.total = 0
           THEN s.completion_rate.num = 0
           ELSE s.completion_rate.num * s.total
                    = s.completed * 100 * s.completion_rate.den
        /\ lastOp.op = "update_stats_tab" => lastOp.stats = s

\* The statistics of a completed and a failed goal are shown
C16_Witness ==
    /\ lastOp.op = "update_stats_tab"
    /\ lastOp.stats.completed = 1
    /\ lastOp.stats.failed = 1
    /\ lastOp.stats.in_progress = 0
    /\ lastOp.stats.completion_rate = [num |-> 100, den |-> 2]

\* C17: a goal that is not completed and whose deadline has passed is
\* failed whenever the goals tab or the statistics tab reads the goals.
C17_ReadsSeeDeadline ==
    LET overdue == {i \in 1..Len(goals) :
                       /\ ~goals[i].completed
                       /\ now > goals[i].created_at + goals[i].deadline_days * TicksPerDay}
    IN  /\ lastOp.op = "update_weekly_goals_tab" =>
              \A i \in overdue : goals[i].failed /\ lastOp.shown[i] = "failed"
        /\ lastOp.op = "update_stats_tab" =>
              /\ \A i \in overdue : goals[i].failed
              /\ lastOp.stats.failed >= Cardinality(overdue)

\* C18 as stated: complete_goal takes a goal from not completed to completed
\* only while now is not past the goal's deadline.
C18_NoLateCompletion ==
    [][\A i \in 1..Len(goals) :
          (/\ lastOp'.op = "complete_goal"
           /\ lastOp'.idx = i
           /\ ~goals[i].completed
           /\ goals'[i].completed)
              => now <= goals[i].created_at + goals[i].deadline_days * TicksPerDay
      ]_vars

\* C18 amended: complete_goal takes a goal from not completed to completed
\* only when the goal is not failed, and the goal is not failed afterwards;
\* the deadline may have passed.
C18_CompletedOnlyUnfailed ==
    [][\A i \in 1..Len(goals) :
          (/\ lastOp'.op = "complete_goal"
           /\ lastOp'.idx = i
           /\ ~goals[i].completed
           /\ goals'[i].completed)
              => ~goals[i].failed /\ ~goals'[i].failed
      ]_vars

\* complete_goal has completed a goal whose deadline had passed
C18_Witness ==
    /\ lastOp.op = "complete_goal"
    /\ lastOp.rets = <<TRUE>>
    /\ goals[lastOp.idx].completed
    /\ ~goals[lastOp.idx].failed
    /\ now > goals[lastOp.idx].created_at
                + goals[lastOp.idx].deadline_days * TicksPerDay

\* C19: delete_goal and delete_daily_task of an object of the collection
\* remove that object and no other, also when another entity has the same
\* fields: the other entities keep their fields and their order, and the
\* other collection is as it was.
C19_DeleteThatOne ==
    [][/\ (lastOp'.op = "delete_goal" /\ lastOp'.arg \in 1..Len(goals)) =>
            /\ lastOp'.idx = lastOp'.arg
            /\ Len(goals') = Len(goals) - 1
            /\ \A j \in 1..Len(goals') :
                  goals'[j] = IF j < lastOp'.arg THEN goals[j] ELSE goals[j + 1]
            /\ daily_tasks' = daily_tasks
       /\ (lastOp'.op = "delete_daily_task" /\ lastOp'.arg \in 1..Len(daily_tasks)) =>
            /\ lastOp'.idx = lastOp'.arg
            /\ Len(daily_tasks') = Len(daily_tasks) - 1
            /\ \A j \in 1..Len(daily_tasks') :
                  daily_tasks'[j] =
                      IF j < lastOp'.arg THEN daily_tasks[j] ELSE daily_tasks[j + 1]
            /\ goals' = goals
      ]_vars

\* The second of two goals with the same fields has been deleted
C19_Witness ==
    /\ lastOp.op = "delete_goal"
    /\ lastOp.res = "ok"
    /\ lastOp.arg = 2
    /\ lastOp.idx = 2
    /\ lastOp.rets = <<TRUE>>
    /\ Len(goals) = 1

\* The index before a step of the task that is at index j after it
PrevTaskIndex(j) ==
    IF lastOp'.op = "delete_daily_task" /\ lastOp'.idx > 0 /\ j >= lastOp'.idx
    THEN j + 1 ELSE j

\* C20: completed_dates of a task only grows at its end: after every step
\* it starts with what it was before the step, and its dates are in
\* non-decreasing order.
C20_AppendOnly ==
    [][\A j \in 1..Len(daily_tasks') :
          LET new == daily_tasks'[j].completed_dates IN
          /\ \A k \in 1..(Len(new) - 1) : new[k] <= new[k + 1]
          /\ PrevTaskIndex(j) \in 1..Len(daily_tasks) =>
                LET old == daily_tasks[PrevTaskIndex(j)].completed_dates IN
                /\ Len(old) <= Len(new)
                /\ SubSeq(new, 1, Len(old)) = old
      ]_vars

\* complete_daily_task has logged a second date for a task
C20_Witness ==
    /\ lastOp.op = "complete_daily_task"
    /\ lastOp.rets = <<TRUE>>
    /\ Len(daily_tasks[lastOp.idx].completed_dates) = 2
    /\ daily_tasks[lastOp.idx].completed_dates[1]
          < daily_tasks[lastOp.idx].completed_dates[2]

\* C21: completion_rate(weeks) is len(completed_dates) / (len(days_of_week)
\* * weeks) * 100, is 0 when days_of_week is empty, and is within 0..100 for
\* a task whose log complete_today() has built, however many days passed.
C21_RateInWindow ==
    lastOp.op = "completion_rate" =>
        LET task == daily_tasks[1]
            r == lastOp.rate
        IN  /\ r.den > 0
            /\ IF task.days_of_week = <<>>
               THEN r.num = 0
               ELSE r.num * (Len(task.days_of_week) * lastOp.arg)
                        = Len(task.completed_dates) * 100 * r.den
            /\ 0 <= r.num
            /\ r.num <= 100 * r.den

\* C22: the list that do_GET returns for /api/goals or /api/tasks, read
\* while add and delete calls run in the other thread, is the collection as
\* it was at some moment of the request: before or after each of the calls.
C22_ConsistentRead ==
    http.pc = "done" =>
        \E c \in http.seen :
            http.out = [i \in 1..Len(c) |-> to_dict(http.path, c[i])]

\* C23: no step changes the name, created_at or deadline_days of a goal or
\* the name or days_of_week of a task that stays in its collection;
\* complete_goal changes nothing but the completed flag of its goal, and
\* complete_daily_task nothing but the completed_dates of its task.
C23_FieldsFixed ==
    [][/\ \A i \in 1..Len(goals') :
             PrevIndex(i) \in 1..Len(goals) =>
                 LET old == goals[PrevIndex(i)]
                     new == goals'[i]
                 IN  /\ new.name = old.name
                     /\ new.created_at = old.created_at
                     /\ new.deadline_days = old.deadline_days
                     /\ lastOp'.op \in {"complete_goal", "complete_daily_task"} =>
                           IF lastOp'.op = "complete_goal" /\ lastOp'.idx = i
                           THEN new.failed = old.failed
                           ELSE new = old
       /\ \A j \in 1..Len(daily_tasks') :
             PrevTaskIndex(j) \in 1..Len(daily_tasks) =>
                 LET old == daily_tasks[PrevTaskIndex(j)]
                     new == daily_tasks'[j]
                 IN  /\ new.name = old.name
                     /\ new.days_of_week = old.days_of_week
                     /\ lastOp'.op \in {"complete_goal", "complete_daily_task"} =>
                           IF lastOp'.op = "complete_daily_task" /\ lastOp'.idx = j
                           THEN TRUE
                           ELSE new = old
       /\ lastOp'.op \in {"complete_goal", "complete_daily_task"} =>
             Len(goals') = Len(goals) /\ Len(daily_tasks') = Len(daily_tasks)
      ]_vars

\* GoalManager() has loaded a goal made in the course of a day, and a task
C23_Witness ==
    /\ lastOp.op = "init"
    /\ lastOp.res = "ok"
    /\ disk.exists
    /\ Len(goals) = 1
    /\ goals[1].created_at % TicksPerDay # 0
    /\ goals[1].completed
    /\ Len(daily_tasks) = 1
    /\ daily_tasks[1].completed_dates # <<>>

=============================================================================
